---- MODULE Spec2Model ----
(***************************************************************************)
(* Meme Scout backend (src/app.py): the pair selector                      *)
(* pick_best_pair_from_list, the score calculator compute_score and the    *)
(* three scoring endpoints /score, /score/by-name and /score/bulk.         *)
(*                                                                         *)
(* Python values are tagged records [t, v]: t is the Python type           *)
(* ("none" for a missing key or null, "num", "str" for a non-empty         *)
(* non-numeric string, "list" for a non-empty list, "dict"), v the number  *)
(* when t = "num".  Strings that the code inspects (chain identifiers,     *)
(* the addresses parameter) are sequences of one-character strings.        *)
(***************************************************************************)
EXTENDS Integers, Sequences, FiniteSets, TLC

VARIABLES
    clock,        \* time.time() * 1000: the wall clock, in milliseconds
    pair,         \* compute_score: the pair record passed in
    results,      \* compute_score: the outcomes of the calls made so far
    pairs,        \* pick_best_pair_from_list: the caller's list object
    pairs0,       \* the elements of that list when the caller built it
    prefer_chain, \* pick_best_pair_from_list: the prefer_chain argument
    picked,       \* pick_best_pair_from_list: what the call returned
    req,          \* the HTTP request being served
    upstream,     \* what the data API answers to the successive fetches
    pc,           \* where the request handler is
    addrs,        \* score_bulk: the parsed address list
    out,          \* score_bulk: the entries appended so far
    fetched,      \* number of upstream fetches the handler has made
    response      \* the HTTP response of the request

vars == <<clock, pair, results, pairs, pairs0, prefer_chain, picked,
          req, upstream, pc, addrs, out, fetched, response>>

scoreVars == <<pair, results>>
pickVars == <<pairs, pairs0, prefer_chain, picked>>
httpVars == <<req, upstream, pc, addrs, out, fetched, response>>

-----------------------------------------------------------------------------
(* Bounds of the model                                                     *)

MaxTicks == 1
MaxCalls == 2
MaxPairs == 3
MaxStrLen == 4

\* One clock tick of the model, and the clock at the start: 60 s and 2 h.
TickMs == 60 * 1000
Clock0 == 120 * 60000

-----------------------------------------------------------------------------
(* Python values                                                           *)

None == [t |-> "none", v |-> 0]
Num(n) == [t |-> "num", v |-> n]
Str == [t |-> "str", v |-> 0]
Lst == [t |-> "list", v |-> 0]
Dict == [t |-> "dict", v |-> 0]

\* bool(x): None, 0 are false; a number other than 0, a non-empty string or
\* list are true.  (A "dict" tag is only tested where both answers agree.)
Truthy(x) == IF x.t = "none" THEN FALSE
             ELSE IF x.t = "num" THEN x.v # 0
             ELSE TRUE

\* (x or {}).get(...) raises AttributeError when x is true and no mapping.
NotMapping(x) == Truthy(x) /\ x.t # "dict"

\* x or 0
OrZero(x) == IF Truthy(x) THEN x ELSE Num(0)

Max(a, b) == IF a >= b THEN a ELSE b
Min(a, b) == IF a <= b THEN a ELSE b

\* round(n / d, digits) scaled by 10^digits (scale), as an integer:
\* round-half-even of scale * n / d, for n >= 0, d > 0.
RoundScaled(n, d, scale) ==
    LET q == (scale * n) \div d
        r == (scale * n) % d
    IN IF 2 * r > d THEN q + 1
       ELSE IF 2 * r < d THEN q
       ELSE IF q % 2 = 0 THEN q ELSE q + 1

-----------------------------------------------------------------------------
(* compute_score (src/app.py 61-141)                                       *)

\* Mapping-valued fields of a pair.  A field that is no mapping keeps the
\* tag of what it is and carries no keys.
Liquidity(usd) == [t |-> "dict", v |-> 0, usd |-> usd]
NoLiquidity(x) == [t |-> x.t, v |-> x.v, usd |-> None]
Tx5(buys, sells) == [t |-> "dict", v |-> 0, buys |-> buys, sells |-> sells]
NoTx5(x) == [t |-> x.t, v |-> x.v, buys |-> None, sells |-> None]
Txns(m5) == [t |-> "dict", v |-> 0, m5 |-> m5]
NoTxns(x) == [t |-> x.t, v |-> x.v, m5 |-> NoTx5(None)]
PriceChange(m5, h1) == [t |-> "dict", v |-> 0, m5 |-> m5, h1 |-> h1]
NoPriceChange(x) == [t |-> x.t, v |-> x.v, m5 |-> None, h1 |-> None]

\* A chain identifier: a string (a sequence of characters) or None.
ChainStr(s) == [t |-> "str", s |-> s]
NoChain == [t |-> "none", s |-> <<>>]

\* float(x) for x = (value or 0): a number converts, "abc" raises
\* ValueError, a list or a mapping raises TypeError.
float_raises(x) == IF x.t = "num" THEN ""
                   ELSE IF x.t = "str" THEN "ValueError"
                   ELSE "TypeError"

\* liquidity_rule with the second test an "if" instead of an "elif".
liquidity_rule_both(liq) ==
    [pts |-> (IF liq >= 25000 THEN 15 ELSE 0) + (IF liq >= 10000 THEN 8 ELSE 0),
     tags |-> (IF liq >= 25000 THEN <<"liq>=25k">> ELSE <<>>)
              \o (IF liq >= 10000 THEN <<"liq>=10k">> ELSE <<>>)]

\* Lines 83-88: the liquidity tier.
liquidity_rule(liq) ==
    IF liq >= 25000 THEN [pts |-> 15, tags |-> <<"liq>=25k">>]
    ELSE IF liq >= 10000 THEN [pts |-> 8, tags |-> <<"liq>=10k">>]
    ELSE [pts |-> 0, tags |-> <<>>]

\* activity_rule on the 5-minute count itself, the division by 5 forgotten.
activity_rule_per5(total) ==
    IF total > 0 /\ total >= 15 THEN [pts |-> 10, tags |-> <<"tx/min>=15">>]
    ELSE IF total > 0 /\ total >= 8 THEN [pts |-> 6, tags |-> <<"tx/min>=8">>]
    ELSE [pts |-> 0, tags |-> <<>>]

\* Lines 70, 91-96: tpm = total / 5.0 if total > 0 else 0.0, and the
\* activity tier; tpm >= k is 5 * k <= total.
activity_rule(total) ==
    IF total > 0 /\ total >= 15 * 5 THEN [pts |-> 10, tags |-> <<"tx/min>=15">>]
    ELSE IF total > 0 /\ total >= 8 * 5 THEN [pts |-> 6, tags |-> <<"tx/min>=8">>]
    ELSE [pts |-> 0, tags |-> <<>>]

\* Lines 71, 99-104: buy_ratio = buys / total if total > 0 else 0.0, and the
\* buy-pressure tier; buys / total >= k / 100 is 100 * buys >= k * total.
buy_rule(buys, total) ==
    IF total > 0 /\ 100 * buys >= 60 * total THEN [pts |-> 10, tags |-> <<"buy>=60%">>]
    ELSE IF total > 0 /\ 100 * buys >= 55 * total THEN [pts |-> 6, tags |-> <<"buy>=55%">>]
    ELSE [pts |-> 0, tags |-> <<>>]

\* Lines 107-112: isinstance(x, (int, float)) and x > 0.
momentum_rule(x, tag) ==
    IF x.t = "num" /\ x.v > 0 THEN [pts |-> 5, tags |-> <<tag>>]
    ELSE [pts |-> 0, tags |-> <<>>]

\* Lines 75, 114-116.
boost_rule(boosts) ==
    IF Truthy(boosts) THEN [pts |-> 5, tags |-> <<"boosted">>]
    ELSE [pts |-> 0, tags |-> <<>>]

\* age_of testing "created_ms is not None" instead of the truth of created_ms.
age_of_not_none(created, now) ==
    IF created.t # "none" THEN Num(Max(0, now - created.v)) ELSE None

\* Lines 76-77: age_min, None when pairCreatedAt is missing, null or 0.  The
\* value is the age in milliseconds: age_min is v / 60000.
age_of(created, now) ==
    IF Truthy(created) THEN Num(Max(0, now - created.v)) ELSE None

\* Lines 118-120: age_min is not None and age_min <= 60.
fresh_rule(age) ==
    IF age.t = "num" /\ age.v <= 60 * 60000 THEN [pts |-> 5, tags |-> <<"new<=60m">>]
    ELSE [pts |-> 0, tags |-> <<>>]

\* Line 122: max(0, min(100, int(round(s)))); s is an int.
clamp_score(s) == Max(0, Min(100, s))

\* risk_of with the first threshold exclusive.
risk_of_le(score_pct) ==
    IF score_pct <= 40 THEN "high" ELSE IF score_pct < 70 THEN "mid" ELSE "low"

\* Line 123.
risk_of(score_pct) ==
    IF score_pct < 40 THEN "high" ELSE IF score_pct < 70 THEN "mid" ELSE "low"

\* Line 131.
fast_migration(age) == age.t = "num" /\ age.v <= 10 * 60000

Raised(e) ==
    [raised |-> e, score |-> 0, risk |-> "", reasons |-> <<>>,
     flags |-> [hasWhales |-> FALSE, fastMigration |-> FALSE],
     metrics |-> [liq |-> 0, tpm |-> 0, buyRatio |-> 0, m5 |-> None,
                  h1 |-> None, ageMin |-> None]]

\* compute_score(pair) called when the clock reads now.  raised = "" when the
\* call returns, else the exception it raises.  metrics.tpm is in hundredths
\* and metrics.buyRatio in thousandths (round(x, 2), round(x, 3)).  The reason
\* tags are spelled in ASCII: ">=" and "<=" for the comparison signs of the
\* source, "^" for its arrow.
compute_score(p, now) ==
    LET L == p.liquidity
        usd == IF L.t = "dict" THEN L.usd ELSE None
        liq == OrZero(usd)
        T == p.txns
        m5t == IF T.t = "dict" THEN T.m5 ELSE NoTx5(None)
        buys == OrZero(IF m5t.t = "dict" THEN m5t.buys ELSE None)
        sells == OrZero(IF m5t.t = "dict" THEN m5t.sells ELSE None)
        total == buys.v + sells.v
        P == p.priceChange
        m5 == IF P.t = "dict" THEN P.m5 ELSE None
        h1 == IF P.t = "dict" THEN P.h1 ELSE None
        created == p.pairCreatedAt
        age == age_of(created, now)
        exc == IF NotMapping(L) THEN "AttributeError"
               ELSE IF NotMapping(T) THEN "AttributeError"
               ELSE IF NotMapping(m5t) THEN "AttributeError"
               ELSE IF float_raises(buys) # "" THEN float_raises(buys)
               ELSE IF float_raises(sells) # "" THEN float_raises(sells)
               ELSE IF NotMapping(P) THEN "AttributeError"
               ELSE IF Truthy(created) /\ created.t # "num" THEN "TypeError"
               ELSE IF liq.t # "num" THEN "TypeError"
               ELSE ""
        rules == << liquidity_rule(liq.v), activity_rule(total),
                    buy_rule(buys.v, total), momentum_rule(m5, "m5^"),
                    momentum_rule(h1, "h1^"), boost_rule(p.boosts),
                    fresh_rule(age) >>
        s == rules[1].pts + rules[2].pts + rules[3].pts + rules[4].pts
             + rules[5].pts + rules[6].pts + rules[7].pts
        reasons == rules[1].tags \o rules[2].tags \o rules[3].tags
                   \o rules[4].tags \o rules[5].tags \o rules[6].tags
                   \o rules[7].tags
        score_pct == clamp_score(s)
    IN IF exc # "" THEN Raised(exc)
       ELSE [raised |-> "", score |-> score_pct, risk |-> risk_of(score_pct),
             reasons |-> reasons,
             flags |-> [hasWhales |-> FALSE, fastMigration |-> fast_migration(age)],
             metrics |-> [liq |-> liq.v,
                          tpm |-> IF total > 0 THEN RoundScaled(total, 5, 100) ELSE 0,
                          buyRatio |-> IF total > 0 THEN RoundScaled(buys.v, total, 1000) ELSE 0,
                          m5 |-> m5, h1 |-> h1, ageMin |-> age]]

\* baseToken and quoteToken: mappings with an address and a symbol.
Token(address, symbol) ==
    [t |-> "dict", v |-> 0, address |-> address, symbol |-> symbol]
NoToken == [t |-> "none", v |-> 0, address |-> NoChain, symbol |-> NoChain]

\* A pair record: the keys the code reads, and id, the identity of the dict
\* object (two pairs of a list are never the same object).
Pair(id, chainId, chain, liquidity, txns, priceChange, boosts, created) ==
    [id |-> id, chainId |-> chainId, chain |-> chain, liquidity |-> liquidity,
     txns |-> txns, priceChange |-> priceChange, boosts |-> boosts,
     pairCreatedAt |-> created, baseToken |-> NoToken, quoteToken |-> NoToken]

\* The pair records compute_score is called with.
LiquidityVals ==
    {NoLiquidity(None), NoLiquidity(Str), Liquidity(None), Liquidity(Str)}
    \cup {Liquidity(Num(n)) : n \in {9999, 10000, 24999, 25000, 30000}}
TxnsVals ==
    {NoTxns(None), NoTxns(Lst), Txns(NoTx5(None)), Txns(NoTx5(Str)),
     Txns(Tx5(None, None)), Txns(Tx5(Str, Num(10))), Txns(Tx5(Num(40), Lst))}
    \cup {Txns(Tx5(Num(bs[1]), Num(bs[2]))) :
            bs \in {<<0, 0>>, <<40, 10>>, <<45, 30>>, <<11, 9>>, <<40, 30>>, <<20, 20>>}}
PriceChangeVals ==
    {NoPriceChange(None), NoPriceChange(Str),
     PriceChange(Num(25), Num(11)), PriceChange(Num(0), Num(11)),
     PriceChange(Num(25), Num(0 - 5)), PriceChange(Str, None)}
BoostsVals == {None, Dict}
CreatedVals ==
    {None, Num(0), Str, Num(Clock0 - 5 * 60000), Num(Clock0 - 10 * 60000),
     Num(Clock0 - 60 * 60000), Num(Clock0 + 60000)}
ScorePairs ==
    {Pair(1, NoChain, NoChain, l, x, c, b, a) :
        l \in LiquidityVals, x \in TxnsVals, c \in PriceChangeVals,
        b \in BoostsVals, a \in CreatedVals}

\* A pair with nothing in it.
EmptyPair ==
    Pair(1, NoChain, NoChain, NoLiquidity(None), NoTxns(None),
         NoPriceChange(None), None, None)

-----------------------------------------------------------------------------
(* Specification of the score calculator: a pair, and calls of             *)
(* compute_score on it while the clock runs.                               *)

IdlePick == /\ pairs = <<>> /\ pairs0 = <<>> /\ prefer_chain = <<>>
            /\ picked = [done |-> FALSE, raised |-> "", none |-> TRUE, pair |-> EmptyPair]
IdleHttp == /\ req = [endpoint |-> "none", param |-> <<>>, chain |-> <<>>]
            /\ upstream = <<>> /\ pc = "idle" /\ addrs = <<>> /\ out = <<>>
            /\ fetched = 0
            /\ response = [status |-> 0, body |-> <<>>]
IdleScore == pair = EmptyPair /\ results = <<>>

InitScore == /\ clock = Clock0
             /\ pair \in ScorePairs
             /\ results = <<>>
             /\ IdlePick /\ IdleHttp

\* The wall clock advances.
Tick == /\ clock < Clock0 + MaxTicks * TickMs
        /\ clock' = clock + TickMs
        /\ UNCHANGED <<scoreVars, pickVars, httpVars>>

\* A call compute_score(pair); line 77 reads the clock.
CallScore == /\ Len(results) < MaxCalls
             /\ results' = Append(results, [now |-> clock, res |-> compute_score(pair, clock)])
             /\ UNCHANGED <<clock, pair, pickVars, httpVars>>

NextScore == Tick \/ CallScore

SpecScore == InitScore /\ [][NextScore]_vars

-----------------------------------------------------------------------------
(* pick_best_pair_from_list (src/app.py 33-58)                             *)

\* str.lower() on the characters of the model.
UpperChars == <<"S", "O", "L", "E", "T", "H">>
LowerChars == <<"s", "o", "l", "e", "t", "h">>
LowerChar(c) ==
    IF \E k \in DOMAIN UpperChars : UpperChars[k] = c
    THEN LowerChars[CHOOSE k \in DOMAIN UpperChars : UpperChars[k] = c]
    ELSE c
Lower(str) == [k \in DOMAIN str |-> LowerChar(str[k])]

\* str.startswith(prefix)
StartsWith(str, prefix) ==
    Len(prefix) <= Len(str) /\ SubSeq(str, 1, Len(prefix)) = prefix

\* Line 52: p.get("chainId") or p.get("chain") or "".
chain_of(p) ==
    IF p.chainId.t = "str" /\ p.chainId.s # <<>> THEN p.chainId.s
    ELSE IF p.chain.t = "str" /\ p.chain.s # <<>> THEN p.chain.s
    ELSE <<>>

\* Lines 43-46: the value float() is applied to in liq_usd.
liq_usd_arg(p) ==
    LET liq == p.liquidity
    IN OrZero(IF Truthy(liq) /\ liq.t # "dict" THEN Num(0)
              ELSE IF liq.t = "dict" THEN liq.usd ELSE None)

liq_usd(p) == liq_usd_arg(p).v

\* Lines 49-55: the pairs of the preferred chain, in input order.
RECURSIVE pref_of(_, _)
pref_of(ps, prefer) ==
    IF ps = <<>> THEN <<>>
    ELSE (IF StartsWith(Lower(chain_of(Head(ps))), Lower(prefer))
          THEN <<Head(ps)>> ELSE <<>>) \o pref_of(Tail(ps), prefer)

\* candidates ignoring the preferred chain.
candidates_all(ps, prefer) == ps

\* Line 56: candidates = pref if pref else pairs.
candidates_of(ps, prefer) ==
    IF pref_of(ps, prefer) # <<>> THEN pref_of(ps, prefer) ELSE ps

\* An insertion that puts x before the elements of equal key.
insert_desc_first(seq, x) ==
    LET before == {k \in DOMAIN seq : liq_usd(seq[k]) > liq_usd(x)}
        n == Cardinality(before)
    IN SubSeq(seq, 1, n) \o <<x>> \o SubSeq(seq, n + 1, Len(seq))

\* x inserted into a sequence sorted by descending liquidity, after the
\* elements of equal key (the sort is stable, reverse=True included).
insert_desc(seq, x) ==
    LET before == {k \in DOMAIN seq : liq_usd(seq[k]) >= liq_usd(x)}
        n == Cardinality(before)
    IN SubSeq(seq, 1, n) \o <<x>> \o SubSeq(seq, n + 1, Len(seq))

\* Line 57: list.sort(key=liq_usd, reverse=True).
RECURSIVE sort_desc(_)
sort_desc(seq) ==
    IF seq = <<>> THEN <<>>
    ELSE insert_desc(sort_desc(SubSeq(seq, 1, Len(seq) - 1)), seq[Len(seq)])

\* The exception the sort raises when float() fails in the key function of
\* one of the candidates, "" when none does.
sort_raises(seq) ==
    IF \A k \in DOMAIN seq : float_raises(liq_usd_arg(seq[k])) = "" THEN ""
    ELSE float_raises(liq_usd_arg(
            seq[CHOOSE k \in DOMAIN seq :
                  /\ float_raises(liq_usd_arg(seq[k])) # ""
                  /\ \A l \in 1..(k - 1) : float_raises(liq_usd_arg(seq[l])) = ""]))

\* pick_best_pair_from_list(pairs, prefer_chain): what it returns (none, or
\* pair), the exception it raises if any, and list, the caller's list object
\* after the call: the sort is in place, and candidates is the caller's list
\* when no pair is of the preferred chain.
pick_best_pair_from_list(ps, prefer) ==
    IF ps = <<>>
    THEN [raised |-> "", none |-> TRUE, pair |-> EmptyPair, list |-> ps]
    ELSE LET candidates == candidates_of(ps, prefer)
             aliased == pref_of(ps, prefer) = <<>>
         IN IF sort_raises(candidates) # ""
            THEN [raised |-> sort_raises(candidates), none |-> TRUE,
                  pair |-> EmptyPair, list |-> ps]
            ELSE [raised |-> "", none |-> FALSE,
                  pair |-> sort_desc(candidates)[1],
                  list |-> IF aliased THEN sort_desc(candidates) ELSE ps]

\* The pair lists pick_best_pair_from_list is called with: the id of a pair
\* is its position in the list the caller built.
PickChains ==
    { <<ChainStr(<<"s", "o", "l", "a", "n", "a">>), NoChain>>,
      <<NoChain, ChainStr(<<"S", "O", "L">>)>>,
      <<ChainStr(<<"e", "t", "h">>), ChainStr(<<"s", "o", "l">>)>>,
      <<NoChain, NoChain>> }
PickLiquidity == {NoLiquidity(None), Liquidity(Num(100)), Liquidity(Num(200))}
PickShapes == PickChains \X PickLiquidity
PickList(f) ==
    [k \in DOMAIN f |->
        Pair(k, f[k][1][1], f[k][1][2], f[k][2], NoTxns(None),
             NoPriceChange(None), None, None)]
Prefers == {<<"S", "o", "L">>, <<"e", "t", "h">>}

NotPicked == [done |-> FALSE, raised |-> "", none |-> TRUE, pair |-> EmptyPair]

InitPick == /\ clock = Clock0
            /\ \E n \in 0..MaxPairs : \E f \in [1..n -> PickShapes] :
                  pairs = PickList(f) /\ pairs0 = PickList(f)
            /\ prefer_chain \in Prefers
            /\ picked = NotPicked
            /\ IdleScore /\ IdleHttp

\* The call pick_best_pair_from_list(pairs, prefer_chain).
CallPick ==
    /\ ~picked.done
    /\ LET r == pick_best_pair_from_list(pairs, prefer_chain)
       IN /\ picked' = [done |-> TRUE, raised |-> r.raised, none |-> r.none,
                        pair |-> r.pair]
          /\ pairs' = r.list
    /\ UNCHANGED <<clock, pairs0, prefer_chain, scoreVars, httpVars>>

NextPick == CallPick

SpecPick == InitPick /\ [][NextPick]_vars

-----------------------------------------------------------------------------
(* The endpoints (src/app.py 151-208)                                      *)

\* What the data API does on one GET: the request fails on the network
\* (client.get raises), the answer is not 2xx (raise_for_status raises), or
\* it is a JSON object whose pairs are the given list.
NetworkError == [kind |-> "network", pairs |-> <<>>]
BadStatus == [kind |-> "status", pairs |-> <<>>]
Data(ps) == [kind |-> "ok", pairs |-> ps]

\* Lines 26-30: fetch_json, on the k-th fetch of the request: the exception
\* it raises ("" when it returns) and the data it returns.
fetch_json(k) ==
    LET answer == upstream[(k % Len(upstream)) + 1]
    IN [raised |-> IF answer.kind = "network" THEN "ConnectError"
                   ELSE IF answer.kind = "status" THEN "HTTPStatusError"
                   ELSE "",
        pairs |-> answer.pairs]

\* An exception that leaves a handler: HTTPException carries its status
\* code; no handler catches anything else, and the framework answers an
\* exception nobody caught with 500.
status_of(exc) == IF exc = "HTTPException(404)" THEN 404 ELSE 500

Sol == <<"s", "o", "l">>

\* One entry of a response body: a payload with address, symbol and
\* updatedAt added, or {address, error}.  error = "" and symbol = NoChain
\* stand for an absent key; str(e) is the name of the exception.
Entry(address, symbol, error, payload, updatedAt) ==
    [address |-> address, symbol |-> symbol, error |-> error,
     payload |-> payload, updatedAt |-> updatedAt]
NoPayload == Raised("")

\* Lines 151-163: the /score handler.
score_handler(address, chain, now) ==
    LET data == fetch_json(0)
        best == pick_best_pair_from_list(data.pairs, chain)
        payload == compute_score(best.pair, now)
    IN IF data.raised # "" THEN [status |-> status_of(data.raised), body |-> <<>>]
       ELSE IF best.raised # "" THEN [status |-> status_of(best.raised), body |-> <<>>]
       ELSE IF best.none THEN [status |-> status_of("HTTPException(404)"), body |-> <<>>]
       ELSE IF payload.raised # "" THEN [status |-> status_of(payload.raised), body |-> <<>>]
       ELSE [status |-> 200,
             body |-> <<Entry(ChainStr(address), NoChain, "", payload, now \div 1000)>>]

\* Lines 177-180, 183: the address and the symbol /score/by-name reports.
token_address(p) ==
    IF p.baseToken.t = "dict" /\ p.baseToken.address.s # <<>>
    THEN p.baseToken.address
    ELSE IF p.quoteToken.t = "dict" /\ p.quoteToken.address.s # <<>>
    THEN p.quoteToken.address
    ELSE NoChain
token_symbol(p) == IF p.baseToken.t = "dict" THEN p.baseToken.symbol ELSE NoChain

\* Lines 166-185: the /score/by-name handler.
score_by_name_handler(q, chain, now) ==
    LET data == fetch_json(0)
        best == pick_best_pair_from_list(data.pairs, chain)
        payload == compute_score(best.pair, now)
    IN IF data.raised # "" THEN [status |-> status_of(data.raised), body |-> <<>>]
       ELSE IF best.raised # "" THEN [status |-> status_of(best.raised), body |-> <<>>]
       ELSE IF best.none THEN [status |-> status_of("HTTPException(404)"), body |-> <<>>]
       ELSE IF payload.raised # "" THEN [status |-> status_of(payload.raised), body |-> <<>>]
       ELSE [status |-> 200,
             body |-> <<Entry(token_address(best.pair), token_symbol(best.pair),
                              "", payload, now \div 1000)>>]

\* str.split(",")
RECURSIVE split(_)
split(str) ==
    IF \A k \in DOMAIN str : str[k] # "," THEN <<str>>
    ELSE LET k == CHOOSE i \in DOMAIN str :
                     str[i] = "," /\ \A j \in 1..(i - 1) : str[j] # ","
         IN <<SubSeq(str, 1, k - 1)>> \o split(SubSeq(str, k + 1, Len(str)))

\* str.strip()
RECURSIVE strip(_)
strip(str) ==
    IF str = <<>> THEN str
    ELSE IF Head(str) = " " THEN strip(Tail(str))
    ELSE IF str[Len(str)] = " " THEN strip(SubSeq(str, 1, Len(str) - 1))
    ELSE str

\* Line 193: [a.strip() for a in addresses.split(",") if a.strip()].
RECURSIVE stripped(_)
stripped(parts) ==
    IF parts = <<>> THEN <<>>
    ELSE (IF strip(Head(parts)) # <<>> THEN <<strip(Head(parts))>> ELSE <<>>)
         \o stripped(Tail(parts))
parse_addresses(addresses) == stripped(split(addresses))

\* Line 195: the cap of addrs[:50].
BulkCap == 50

\* addrs[:n]
take(seq, n) == SubSeq(seq, 1, Min(n, Len(seq)))

\* Lines 196-207: the body of the loop for address a, on the k-th fetch: the
\* entry it appends.
bulk_entry(a, k, now) ==
    LET data == fetch_json(k)
        best == pick_best_pair_from_list(data.pairs, Sol)
        payload == compute_score(best.pair, now)
    IN IF data.raised # "" THEN Entry(ChainStr(a), NoChain, data.raised, NoPayload, 0)
       ELSE IF best.raised # "" THEN Entry(ChainStr(a), NoChain, best.raised, NoPayload, 0)
       ELSE IF best.none THEN Entry(ChainStr(a), NoChain, "not_found", NoPayload, 0)
       ELSE IF payload.raised # "" THEN Entry(ChainStr(a), NoChain, payload.raised, NoPayload, 0)
       ELSE Entry(ChainStr(a), NoChain, "", payload, now \div 1000)

\* The pairs the data API answers with.
SolPair ==
    [Pair(2, ChainStr(<<"s", "o", "l", "a", "n", "a">>), NoChain,
          Liquidity(Num(30000)), Txns(Tx5(Num(40), Num(10))),
          PriceChange(Num(25), Num(11)), Dict, Num(Clock0 - 5 * 60000))
       EXCEPT !.baseToken = Token(ChainStr(<<"m", "1">>), ChainStr(<<"M">>))]
EthPair ==
    [Pair(1, ChainStr(<<"e", "t", "h">>), NoChain,
          Liquidity(Num(90000)), NoTxns(None), NoPriceChange(None), None, None)
       EXCEPT !.quoteToken = Token(ChainStr(<<"m", "2">>), NoChain)]
\* liquidity is a string: the selector counts it as 0, the calculator raises.
BadLiquidityPair ==
    Pair(1, NoChain, NoChain, NoLiquidity(Str), NoTxns(None),
         NoPriceChange(None), None, None)
\* liquidity.usd is a string that is no number: float() raises in the selector.
BadUsdPair ==
    Pair(1, NoChain, NoChain, Liquidity(Str), NoTxns(None),
         NoPriceChange(None), None, None)

Answers ==
    {NetworkError, BadStatus, Data(<<>>), Data(<<EthPair, SolPair>>),
     Data(<<BadLiquidityPair>>), Data(<<BadUsdPair>>)}
Upstreams == [1..3 -> Answers]

\* The strings of the addresses parameter: all short strings of addresses,
\* commas and blanks, and a list of more addresses than the cap.
AddrChars == {"a", ",", " "}
ShortStrings == UNION {[1..n -> AddrChars] : n \in 0..MaxStrLen}
RECURSIVE Repeat(_, _)
Repeat(str, n) == IF n = 0 THEN <<>> ELSE str \o Repeat(str, n - 1)
LongString == Repeat(<<"a", ",">>, BulkCap + 2)

Requests ==
    {[endpoint |-> "bulk", param |-> str, chain |-> Sol] :
        str \in ShortStrings \cup {LongString}}
    \cup {[endpoint |-> e, param |-> <<"a">>, chain |-> c] :
            e \in {"score", "by_name"}, c \in {Sol, <<"E", "t", "h">>}}

InitHttp == /\ clock = Clock0
            /\ req \in Requests
            /\ upstream \in Upstreams
            /\ pc = "start"
            /\ addrs = <<>>
            /\ out = <<>>
            /\ fetched = 0
            /\ response = [status |-> 0, body |-> <<>>]
            /\ IdleScore /\ IdlePick

\* GET /score
score ==
    /\ pc = "start" /\ req.endpoint = "score"
    /\ response' = score_handler(req.param, req.chain, clock)
    /\ fetched' = fetched + 1
    /\ pc' = "done"
    /\ UNCHANGED <<clock, req, upstream, addrs, out, scoreVars, pickVars>>

\* GET /score/by-name
score_by_name ==
    /\ pc = "start" /\ req.endpoint = "by_name"
    /\ response' = score_by_name_handler(req.param, req.chain, clock)
    /\ fetched' = fetched + 1
    /\ pc' = "done"
    /\ UNCHANGED <<clock, req, upstream, addrs, out, scoreVars, pickVars>>

\* GET /score/bulk: lines 193-194.
score_bulk_start ==
    /\ pc = "start" /\ req.endpoint = "bulk"
    /\ addrs' = parse_addresses(req.param)
    /\ out' = <<>>
    /\ pc' = "loop"
    /\ UNCHANGED <<clock, req, upstream, fetched, response, scoreVars, pickVars>>

\* GET /score/bulk: one turn of the loop of lines 195-207.
score_bulk_item ==
    /\ pc = "loop" /\ Len(out) < Len(take(addrs, BulkCap))
    /\ out' = Append(out, bulk_entry(addrs[Len(out) + 1], fetched, clock))
    /\ fetched' = fetched + 1
    /\ UNCHANGED <<clock, req, upstream, pc, addrs, response, scoreVars, pickVars>>

\* GET /score/bulk: line 208.
score_bulk_return ==
    /\ pc = "loop" /\ Len(out) = Len(take(addrs, BulkCap))
    /\ response' = [status |-> 200, body |-> out]
    /\ pc' = "done"
    /\ UNCHANGED <<clock, req, upstream, addrs, out, fetched, scoreVars, pickVars>>

NextHttp == \/ score
            \/ score_by_name
            \/ score_bulk_start
            \/ score_bulk_item
            \/ score_bulk_return

SpecHttp == InitHttp /\ [][NextHttp]_vars

-----------------------------------------------------------------------------
(* Claims about compute_score, under SpecScore                             *)

Returned == {i \in DOMAIN results : results[i].res.raised = ""}
Has(seq, x) == \E k \in DOMAIN seq : seq[k] = x
NoDup(seq) == \A k, l \in DOMAIN seq : seq[k] = seq[l] => k = l

\* C1: every returned score is an integer in 0..100, and risk is "high"
\* exactly when score < 40, "mid" exactly when 40 <= score < 70 and "low"
\* exactly when score >= 70.
C1_ScoreBoundedRiskByScore ==
    \A i \in Returned :
        LET r == results[i].res
        IN /\ r.score \in 0..100
           /\ r.risk \in {"high", "mid", "low"}
           /\ (r.risk = "high") <=> (r.score < 40)
           /\ (r.risk = "mid") <=> (40 <= r.score /\ r.score < 70)
           /\ (r.risk = "low") <=> (r.score >= 70)

C1_Witness ==
    \E i \in Returned : results[i].res.score = 40 /\ results[i].res.risk = "mid"

\* C2: reasons never holds both tags of a two-tier category (liquidity,
\* activity, buy pressure), and no tag appears twice.
C2_OneTagPerTier ==
    \A i \in Returned :
        LET rs == results[i].res.reasons
        IN /\ ~(Has(rs, "liq>=25k") /\ Has(rs, "liq>=10k"))
           /\ ~(Has(rs, "tx/min>=15") /\ Has(rs, "tx/min>=8"))
           /\ ~(Has(rs, "buy>=60%") /\ Has(rs, "buy>=55%"))
           /\ NoDup(rs)

C2_Witness ==
    \E i \in Returned :
        LET rs == results[i].res.reasons
        IN Has(rs, "liq>=25k") /\ Has(rs, "tx/min>=15") /\ Has(rs, "buy>=60%")

\* A pair whose numeric fields are all well typed: every key is missing,
\* null or of the type the calculator expects.
WellTyped(p) ==
    /\ p.liquidity.t \in {"none", "dict"}
    /\ p.liquidity.usd.t \in {"none", "num"}
    /\ p.txns.t \in {"none", "dict"}
    /\ p.txns.m5.t \in {"none", "dict"}
    /\ p.txns.m5.buys.t \in {"none", "num"}
    /\ p.txns.m5.sells.t \in {"none", "num"}
    /\ p.priceChange.t \in {"none", "dict"}
    /\ p.priceChange.m5.t \in {"none", "num"}
    /\ p.priceChange.h1.t \in {"none", "num"}
    /\ p.pairCreatedAt.t \in {"none", "num"}

\* The rule table of the claim, on the values of the pair: each row is
\* <<condition, points, tag>>.
RuleTable(p, now) ==
    LET liq == p.liquidity.usd.v
        buys == p.txns.m5.buys.v
        sells == p.txns.m5.sells.v
        total == buys + sells
        present == p.pairCreatedAt.t = "num" /\ p.pairCreatedAt.v # 0
        ageMs == IF now >= p.pairCreatedAt.v THEN now - p.pairCreatedAt.v ELSE 0
    IN << <<liq >= 25000, 15, "liq>=25k">>,
          <<liq < 25000 /\ liq >= 10000, 8, "liq>=10k">>,
          <<total >= 75, 10, "tx/min>=15">>,
          <<total < 75 /\ total >= 40, 6, "tx/min>=8">>,
          <<total > 0 /\ 10 * buys >= 6 * total, 10, "buy>=60%">>,
          <<total > 0 /\ 10 * buys < 6 * total /\ 100 * buys >= 55 * total, 6, "buy>=55%">>,
          <<p.priceChange.m5.v > 0, 5, "m5^">>,
          <<p.priceChange.h1.v > 0, 5, "h1^">>,
          <<p.boosts.t # "none", 5, "boosted">>,
          <<present /\ ageMs <= 3600000, 5, "new<=60m">> >>

RECURSIVE TablePoints(_, _)
TablePoints(table, k) ==
    IF k = 0 THEN 0
    ELSE TablePoints(table, k - 1) + (IF table[k][1] THEN table[k][2] ELSE 0)

RECURSIVE TableTags(_, _)
TableTags(table, k) ==
    IF k = 0 THEN <<>>
    ELSE TableTags(table, k - 1) \o (IF table[k][1] THEN <<table[k][3]>> ELSE <<>>)

\* The first scenario of the claim: liq 30000, 40 buys and 10 sells, m5 and
\* h1 positive, boosted, created 5 minutes before the call.
IsScenario(p, now) ==
    /\ p.liquidity = Liquidity(Num(30000))
    /\ p.txns = Txns(Tx5(Num(40), Num(10)))
    /\ p.priceChange = PriceChange(Num(25), Num(11))
    /\ p.boosts = Dict
    /\ p.pairCreatedAt = Num(now - 5 * 60000)

C3_RuleTable ==
    \A i \in DOMAIN results :
        WellTyped(pair) =>
            LET r == results[i].res
                table == RuleTable(pair, results[i].now)
            IN /\ r.raised = ""
               /\ r.score = TablePoints(table, Len(table))
               /\ r.reasons = TableTags(table, Len(table))

C3_EmptyPair ==
    \A i \in DOMAIN results :
        pair = EmptyPair =>
            LET r == results[i].res
            IN /\ r.raised = "" /\ r.score = 0 /\ r.risk = "high"
               /\ r.reasons = <<>> /\ r.metrics.ageMin = None
               /\ r.flags.fastMigration = FALSE

\* C3 as claimed: the score is the sum of the points of exactly the rules
\* that hold and reasons their tags in table order; the scenario pair gives
\* score 55, risk "mid", seven tags and fastMigration; the empty pair gives
\* score 0, risk "high", no reasons, ageMin null, fastMigration false.
C3_AsClaimed ==
    /\ C3_RuleTable
    /\ C3_EmptyPair
    /\ \A i \in DOMAIN results :
        IsScenario(pair, results[i].now) =>
            LET r == results[i].res
            IN /\ r.score = 55 /\ r.risk = "mid" /\ Len(r.reasons) = 7
               /\ r.flags.fastMigration = TRUE

\* C3 amended: as claimed, but the scenario pair (50 transactions in 5
\* minutes, 10 per minute) gets the lower activity tier: score
\* 15+6+10+5+5+5+5 = 51, risk "mid", the seven tags liq>=25k, tx/min>=8,
\* buy>=60%, m5^, h1^, boosted, new<=60m, and fastMigration.
C3_ScoreIsSumOfRules ==
    /\ C3_RuleTable
    /\ C3_EmptyPair
    /\ \A i \in DOMAIN results :
        IsScenario(pair, results[i].now) =>
            LET r == results[i].res
            IN /\ r.score = 51 /\ r.risk = "mid"
               /\ r.reasons = <<"liq>=25k", "tx/min>=8", "buy>=60%", "m5^",
                                "h1^", "boosted", "new<=60m">>
               /\ r.flags.fastMigration = TRUE

C3_Witness ==
    \E i \in Returned :
        /\ IsScenario(pair, results[i].now)
        /\ results[i].res.score = 51
        /\ Len(results[i].res.reasons) = 7

\* C8: compute_score never raises: every call returns a result, whatever is
\* missing, null or of the wrong type in the pair.
C8_NeverRaises ==
    \A i \in DOMAIN results : results[i].res.raised = ""

-----------------------------------------------------------------------------
(* Claims about pick_best_pair_from_list, under SpecPick                   *)

\* The claim's chain test and liquidity, on the list the caller passed in.
ClaimChain(p) == IF p.chainId.t = "str" THEN p.chainId.s ELSE p.chain.s
ClaimMatches(p) == StartsWith(Lower(ClaimChain(p)), Lower(prefer_chain))
ClaimLiquidity(p) == p.liquidity.usd.v
Matching == {k \in DOMAIN pairs0 : ClaimMatches(pairs0[k])}
Candidates == IF Matching # {} THEN Matching ELSE DOMAIN pairs0
MaxLiquidity(S) == CHOOSE m \in {ClaimLiquidity(pairs0[k]) : k \in S} :
                      \A k \in S : ClaimLiquidity(pairs0[k]) <= m

\* C4: the call returns none exactly when the list is empty; otherwise it
\* returns a pair of maximum liquidity among the pairs of the preferred
\* chain if there is one, and else among all the pairs.
C4_PrefersChainThenLiquidity ==
    picked.done =>
        /\ picked.raised = ""
        /\ picked.none <=> (pairs0 = <<>>)
        /\ ~picked.none =>
             \E k \in Candidates :
                /\ picked.pair = pairs0[k]
                /\ ClaimLiquidity(pairs0[k]) = MaxLiquidity(Candidates)

C4_Witness ==
    /\ picked.done /\ ~picked.none
    /\ Matching # {}
    /\ \E k \in DOMAIN pairs0 \ Matching :
          ClaimLiquidity(pairs0[k]) > MaxLiquidity(Matching)
    /\ picked.pair.id \in Matching

\* C5: the call has no side effects: afterwards the caller's list holds the
\* same elements in the same order as before.
C5_NoSideEffects ==
    picked.done => pairs = pairs0

\* C10: when several candidates share the maximum liquidity, the call returns
\* the one that comes first in the input.
C10_FirstMaximumWins ==
    (picked.done /\ ~picked.none) =>
        LET best == {k \in Candidates :
                        ClaimLiquidity(pairs0[k]) = MaxLiquidity(Candidates)}
        IN picked.pair.id = CHOOSE k \in best : \A l \in best : k <= l

C10_Witness ==
    /\ picked.done /\ ~picked.none
    /\ \E k, l \in Candidates :
          /\ k < l
          /\ ClaimLiquidity(pairs0[k]) = MaxLiquidity(Candidates)
          /\ ClaimLiquidity(pairs0[l]) = MaxLiquidity(Candidates)
          /\ picked.pair = pairs0[k]

-----------------------------------------------------------------------------
(* Claims about the endpoints, under SpecHttp                              *)

\* The answer of the data API to the k-th address of a bulk request.
AnswerFor(k) == upstream[((k - 1) % Len(upstream)) + 1]

\* C6: a /score/bulk request ends without a request-level failure, and
\* results holds one entry for each of the first 50 non-blank addresses, in
\* input order: {address, error: <message>} where the fetch failed,
\* {address, error: "not_found"} where the pair list was empty, and a full
\* ScoreResult for every other address.
C6_BulkIsolatesFailures ==
    (pc = "done" /\ req.endpoint = "bulk") =>
        LET want == take(parse_addresses(req.param), 50)
            body == response.body
        IN /\ response.status = 200
           /\ Len(body) = Len(want)
           /\ \A k \in DOMAIN body :
                /\ body[k].address = ChainStr(want[k])
                /\ AnswerFor(k).kind # "ok" =>
                      body[k].error \notin {"", "not_found"}
                /\ AnswerFor(k) = Data(<<>>) => body[k].error = "not_found"
                /\ (AnswerFor(k).kind = "ok" /\ AnswerFor(k).pairs # <<>>) =>
                      /\ body[k].error = ""
                      /\ body[k].payload.raised = ""
                      /\ body[k].payload.risk \in {"high", "mid", "low"}

\* C7: in /score and /score/by-name a failed upstream fetch (network error
\* or non-2xx answer) ends in a 502 response, and a fetch that yields no
\* pair ends in a 404 response.
C7_SingleItemErrors ==
    (pc = "done" /\ req.endpoint \in {"score", "by_name"}) =>
        /\ upstream[1].kind \in {"network", "status"} => response.status = 502
        /\ upstream[1] = Data(<<>>) => response.status = 404

====
